---- MODULE Spec2Model ----
(***************************************************************************)
(* Order lifecycle engine of the marketplace bot (src/main.py).            *)
(*                                                                         *)
(* The durable store is SQLite: every SELECT is one atomic read, and every *)
(* write transaction (implicit BEGIN .. commit, or BEGIN IMMEDIATE ..      *)
(* commit) is one atomic write, because SQLite admits one writer at a      *)
(* time.  A handler is therefore a short sequence of atomic steps: the     *)
(* read of the order row, then the write transaction, then the work after  *)
(* the commit.  Handlers run on the bot's worker threads, scheduled jobs   *)
(* on the scheduler's threads, all in parallel.                            *)
(*                                                                         *)
(* Taking the threading.Lock is merged with the SELECT that follows it,    *)
(* and releasing it with the step that precedes the release: an acquire    *)
(* commutes to the right and a release to the left of every step of        *)
(* another thread.  A handler that arrives while the Lock is free starts   *)
(* at its read; one that arrives while the Lock is held waits at "begin".  *)
(***************************************************************************)
EXTENDS Integers, Sequences, FiniteSets, Bags, TLC

\* ------------------------------------------------------------------ bounds
NumUsers == 3
MaxOrders == 1
MaxPrice == 1
NumThreads == 2
MaxCancels == 2
MaxCreated == 3
NumExecutors == 2
NumStars == 2
NumComments == 2

\* configuration (os.getenv), in units of half a kilometre: the initial
\* radius is 3.5 km and the step 1 km, as in the defaults; the maximum is
\* set to 5.5 km, so that an order reaches it after two expansions
INITIAL_RADIUS_KM == 7
EXPANSION_STEP_KM == 2
MAX_RADIUS_KM == 11

Users == 1..NumUsers
OrderIds == 1..MaxOrders
Prices == 0..MaxPrice
Threads == 1..NumThreads

\* users with role 'executor', status 'available' and a location
Executors == 1..NumExecutors

\* the buttons of send_rating_prompt carry 1..5 stars
MAX_STARS == 5

\* callback_data "rate:<order_id>:<stars>", stars = int(parts[2]): numbers
\* of the buttons and a number no button carries; the texts a rater may send
Stars == (1..NumStars) \cup {MAX_STARS + 1}
Comments == 1..NumComments

\* accepted_by IS NULL; a Lock nobody holds
NULL == 0

VARIABLES
    users,        \* users table: tg_id -> balance_coins, frozen_total_coins
    orders,       \* orders table: a sequence, the order id is the index
    disputes,     \* disputes table: order id -> number of rows
    order_locks,  \* order_locks: order id -> thread holding the Lock, or NULL
    jobs,         \* the scheduler's job store: a bag of job ids
    threads,      \* the bot's worker threads: the handler each one is running
    tasks,        \* running auto_release tasks, by order id
    ledger        \* history: per order, the coins released to the creator,
                  \* credited to an executor and debited from the creator's
                  \* frozen total, the number of cancels and transfers, and
                  \* the executor whose acceptance scheduled the pending
                  \* confirm_timeout job, and the number of escalations
                  \* sent since the order was last accepted

VARIABLES
    notifications,  \* notifications table: order id -> executor -> rows
    offers,         \* history: order id -> executor -> new-order offers sent
    notifier,       \* the notify_executors_of_order thread of each order
    expansion,      \* the running expansion_job, if any
    ratings,        \* ratings table: order id -> rater -> the rows
    rating_calls    \* the rating submission each worker thread is handling

\* the notification side and the rating side of the store
outreach == <<notifications, offers, notifier, expansion>>

reviews == <<ratings, rating_calls>>

vars == <<users, orders, disputes, order_locks, jobs, threads, tasks, ledger,
          outreach, reviews>>

\* ------------------------------------------------------------- store reads
Exists(o) == o <= Len(orders)

NoRow == [frozen_amount |-> 0, accepted_by |-> NULL]

Idle == [op |-> "idle", pc |-> "idle", order_id |-> 0, user |-> 0, row |-> NoRow]

NoTask == [pc |-> "none", row |-> NoRow]

\* no notify_executors_of_order thread has been started for the order
NoNotifier == [pc |-> "none", targets |-> {}]

\* no expansion_job is running
NoTick == [pc |-> "idle", rows |-> {}, order_id |-> 0, new_radius |-> 0,
           newly |-> {}]

\* the worker thread is handling no rating submission
NoRating == [to_tg |-> NULL, stars |-> NULL, comment |-> NULL, found |-> FALSE]

\* job ids: f"confirm_timeout_{order_id}", f"auto_release_{order_id}"
JobId(kind, o) == [kind |-> kind, order_id |-> o]

\* the job id is in the job store
Pending(id) == BagIn(id, jobs)

\* scheduler.add_job(task, 'date', id=job_id, replace_existing=True): a
\* pending job of the same id is replaced by the new one
AddJob(id) == IF BagIn(id, jobs) THEN jobs ELSE jobs (+) SetToBag({id})

\* the scheduler takes the due job out of the job store and runs its task
RunJob(id) == jobs (-) SetToBag({id})

Call(op, pc, o, u, row) ==
    [op |-> op, pc |-> pc, order_id |-> o, user |-> u, row |-> row]

\* the worker pool hands an update to a free worker
FreeThread(t) ==
    /\ threads[t].op = "idle"
    /\ \A s \in Threads : s < t => threads[s].op # "idle"

Running(t, op, pc) == threads[t].op = op /\ threads[t].pc = pc

\* thread t is at the start of handler op for order o and caller u: it has
\* just been handed the update, or it has been waiting for the Lock
Entering(t, op, o, u) ==
    \/ FreeThread(t)
    \/ threads[t] = Call(op, "begin", o, u, NoRow)

Wait(t, op, o, u) ==
    /\ FreeThread(t)
    /\ threads' = [threads EXCEPT ![t] = Call(op, "begin", o, u, NoRow)]

Finish(t) == threads' = [threads EXCEPT ![t] = Idle]

Goto(t, op, pc, o, u, row) ==
    threads' = [threads EXCEPT ![t] = Call(op, pc, o, u, row)]

\* a Lock that excludes nobody: get_order_lock handing out a new Lock on
\* every call instead of the one kept in order_locks
LockFreeNotShared(o) == TRUE

\* lk.acquire / with lk: the Lock can be taken when no thread holds it
LockFree(o) == order_locks[o] = NULL

Acquire(t, o) == order_locks' = [order_locks EXCEPT ![o] = t]

Release(o) == order_locks' = [order_locks EXCEPT ![o] = NULL]

\* ------------------------------------------------------------------- Init
\* one user has been granted coins (add_coins); the others have none yet
InitBalance(u) == IF u = NumUsers THEN MaxPrice + 1 ELSE 0

Init ==
    /\ users = [u \in Users |->
                  [balance_coins |-> InitBalance(u), frozen_total_coins |-> 0]]
    /\ orders = << >>
    /\ disputes = [o \in OrderIds |-> 0]
    /\ order_locks = [o \in OrderIds |-> NULL]
    /\ jobs = EmptyBag
    /\ threads = [t \in Threads |-> Idle]
    /\ tasks = [o \in OrderIds |-> NoTask]
    /\ ledger = << >>
    /\ notifications = [o \in OrderIds |-> [e \in Executors |-> 0]]
    /\ offers = [o \in OrderIds |-> [e \in Executors |-> 0]]
    /\ notifier = [o \in OrderIds |-> NoNotifier]
    /\ expansion = NoTick
    /\ ratings = [o \in OrderIds |-> [u \in Users |-> << >>]]
    /\ rating_calls = [t \in Threads |-> NoRating]

\* ------------------------------------------------ create_order_and_reserve
\* One BEGIN IMMEDIATE transaction: the balance check, the reservation and
\* the INSERT commit together, or nothing is written.
CreateOrder(creator, price) ==
    /\ Len(orders) < MaxOrders
    /\ users[creator].balance_coins >= price
    /\ users' = [users EXCEPT
                   ![creator].balance_coins = @ - price,
                   ![creator].frozen_total_coins = @ + price]
    /\ orders' = Append(orders,
                   [creator_tg |-> creator, price_coins |-> price,
                    status |-> "PUBLISHED", frozen_amount |-> price,
                    accepted_by |-> NULL, radius_km |-> INITIAL_RADIUS_KM])
    /\ ledger' = Append(ledger, [released |-> 0, credited |-> 0, debited |-> 0,
                                 cancels |-> 0, transfers |-> 0,
                                 timeout_for |-> NULL, escalations |-> 0])
    /\ UNCHANGED <<disputes, order_locks, jobs, threads, tasks, outreach, reviews>>

\* balance < price: rollback, "insufficient_funds", nothing is written
CreateRejected(creator, price) ==
    /\ users[creator].balance_coins < price
    /\ UNCHANGED vars

\* ------------------------------- callback_confirm_create, statement by statement
\* SpecCreate follows create_order_and_reserve through its transaction on
\* the worker threads, to see concurrent creates: BEGIN IMMEDIATE, the
\* SELECT of the balance, then the UPDATE, the INSERT and the commit.

\* a tg id that has no row in the users table
UnknownUser == NumUsers + 1

Creators == Users \cup {UnknownUser}

\* the values of a create call: the INSERT's frozen_amount is the price
NewRow(price) == [frozen_amount |-> price, accepted_by |-> NULL]

\* thread t is inside the transaction of create_order_and_reserve
InCreate(t) == threads[t].op = "create" /\ threads[t].pc \in {"check", "write"}

\* a transaction opened with a plain BEGIN: it takes no lock until it writes
DbWriteFreeDeferred == TRUE

\* BEGIN IMMEDIATE takes the database's write lock: it waits while another
\* connection is inside a write transaction
DbWriteFree == \A s \in Threads : ~InCreate(s)

\* confirm_create:<creator>; cur.execute("BEGIN IMMEDIATE;")
CreateBegin(t, creator, price) ==
    /\ FreeThread(t)
    /\ Len(orders) + Cardinality({s \in Threads : InCreate(s)}) < MaxCreated
    /\ DbWriteFree
    /\ Goto(t, "create", "check", 0, creator, NewRow(price))
    /\ UNCHANGED <<users, orders, disputes, order_locks, jobs, tasks, ledger, outreach, reviews>>

\* a check that looks for the users row only, not at its balance
CreateCheckNoBalance(t) ==
    /\ Running(t, "create", "check")
    /\ threads' = [threads EXCEPT ![t].pc =
                      IF threads[t].user \notin Users THEN "user_not_found"
                                                      ELSE "write"]
    /\ UNCHANGED <<users, orders, disputes, order_locks, jobs, tasks, ledger, outreach, reviews>>

\* SELECT balance_coins: no row -> rollback, "user_not_found";
\* balance < price -> rollback, "insufficient_funds"
CreateCheck(t) ==
    LET creator == threads[t].user
        price == threads[t].row.frozen_amount
    IN
    /\ Running(t, "create", "check")
    /\ threads' = [threads EXCEPT ![t].pc =
                      IF creator \notin Users THEN "user_not_found"
                      ELSE IF users[creator].balance_coins < price
                             THEN "insufficient_funds"
                             ELSE "write"]
    /\ UNCHANGED <<users, orders, disputes, order_locks, jobs, tasks, ledger, outreach, reviews>>

\* UPDATE users (reserve); INSERT INTO orders; commit
CreateWrite(t) ==
    LET creator == threads[t].user
        price == threads[t].row.frozen_amount
    IN
    /\ Running(t, "create", "write")
    /\ users' = [users EXCEPT
                   ![creator].balance_coins = @ - price,
                   ![creator].frozen_total_coins = @ + price]
    /\ orders' = Append(orders,
                   [creator_tg |-> creator, price_coins |-> price,
                    status |-> "PUBLISHED", frozen_amount |-> price,
                    accepted_by |-> NULL, radius_km |-> INITIAL_RADIUS_KM])
    /\ ledger' = Append(ledger, [released |-> 0, credited |-> 0, debited |-> 0,
                                 cancels |-> 0, transfers |-> 0,
                                 timeout_for |-> NULL, escalations |-> 0])
    /\ threads' = [threads EXCEPT ![t].pc = "created",
                                  ![t].order_id = Len(orders) + 1]
    /\ UNCHANGED <<disputes, order_locks, jobs, tasks, outreach, reviews>>

\* a statement of the transaction raises: rollback, "db_error"
CreateFail(t) ==
    /\ InCreate(t)
    /\ threads' = [threads EXCEPT ![t].pc = "db_error"]
    /\ UNCHANGED <<users, orders, disputes, order_locks, jobs, tasks, ledger, outreach, reviews>>

\* create_order_and_reserve has returned: the handler reports the outcome
CreateReport(t) ==
    /\ threads[t].op = "create"
    /\ ~InCreate(t)
    /\ Finish(t)
    /\ UNCHANGED <<users, orders, disputes, order_locks, jobs, tasks, ledger, outreach, reviews>>

NextCreate ==
    \/ \E t \in Threads, c \in Creators, p \in Prices : CreateBegin(t, c, p)
    \/ \E t \in Threads : CreateCheck(t)
    \/ \E t \in Threads : CreateWrite(t)
    \/ \E t \in Threads : CreateFail(t)
    \/ \E t \in Threads : CreateReport(t)

SpecCreate == Init /\ [][NextCreate]_vars

\* --------------------------------------------------------- callback_accept
\* resolve_order_identifier found the order; another thread holds the Lock
AcceptWait(t, o, u) ==
    /\ Exists(o)
    /\ ~LockFree(o)
    /\ Wait(t, "accept", o, u)
    /\ UNCHANGED <<users, orders, disputes, order_locks, jobs, tasks, ledger, outreach, reviews>>

\* lk.acquire(timeout=5) gives up while another thread holds the Lock
AcceptBusy(t) ==
    /\ Running(t, "accept", "begin")
    /\ ~LockFree(threads[t].order_id)
    /\ Finish(t)
    /\ UNCHANGED <<users, orders, disputes, order_locks, jobs, tasks, ledger, outreach, reviews>>

\* the Lock is taken; SELECT status; anything but PUBLISHED is rejected
AcceptRead(t, o, u) ==
    /\ Entering(t, "accept", o, u)
    /\ Exists(o)
    /\ LockFree(o)
    /\ IF orders[o].status = "PUBLISHED"
         THEN Acquire(t, o) /\ Goto(t, "accept", "write", o, u, NoRow)
         ELSE Finish(t) /\ UNCHANGED order_locks
    /\ UNCHANGED <<users, orders, disputes, jobs, tasks, ledger, outreach, reviews>>

\* an accept whose UPDATE sets the status and leaves accepted_by as it was
AcceptWriteStatusOnly(t) ==
    LET o == threads[t].order_id IN
    /\ Running(t, "accept", "write")
    /\ orders' = [orders EXCEPT ![o].status = "AWAITING_CUSTOMER_CONFIRM"]
    /\ ledger' = [ledger EXCEPT ![o].escalations = 0]
    /\ threads' = [threads EXCEPT ![t].pc = "post"]
    /\ UNCHANGED <<users, disputes, order_locks, jobs, tasks, outreach, reviews>>

\* UPDATE orders SET status='AWAITING_CUSTOMER_CONFIRM', accepted_by=?; commit
AcceptWrite(t) ==
    LET o == threads[t].order_id IN
    /\ Running(t, "accept", "write")
    /\ orders' = [orders EXCEPT
                    ![o].status = "AWAITING_CUSTOMER_CONFIRM",
                    ![o].accepted_by = threads[t].user]
    /\ ledger' = [ledger EXCEPT ![o].escalations = 0]
    /\ threads' = [threads EXCEPT ![t].pc = "post"]
    /\ UNCHANGED <<users, disputes, order_locks, jobs, tasks, outreach, reviews>>

\* an accept whose exception path returns without lk.release()
AcceptAnswerFailsKeepsLock(t) ==
    /\ Running(t, "accept", "post")
    /\ Finish(t)
    /\ UNCHANGED <<users, orders, disputes, order_locks, jobs, tasks, ledger, outreach, reviews>>

\* bot.answer_callback_query raises after the commit: the handler's except
\* clause logs it, schedule_accept_timeout is not reached; lk.release()
AcceptAnswerFails(t) ==
    /\ Running(t, "accept", "post")
    /\ Release(threads[t].order_id)
    /\ Finish(t)
    /\ UNCHANGED <<users, orders, disputes, jobs, tasks, ledger, outreach, reviews>>

\* schedule_accept_timeout (replace_existing=True), then lk.release()
AcceptPost(t) ==
    LET o == threads[t].order_id IN
    /\ Running(t, "accept", "post")
    /\ jobs' = AddJob(JobId("confirm_timeout", o))
    /\ ledger' = [ledger EXCEPT ![o].timeout_for = threads[t].user]
    /\ Release(o)
    /\ Finish(t)
    /\ UNCHANGED <<users, orders, disputes, tasks, outreach, reviews>>

\* ----------------------------------------------- callback_customer_confirm
ConfirmWait(t, o, u) ==
    /\ ~LockFree(o)
    /\ Wait(t, "confirm", o, u)
    /\ UNCHANGED <<users, orders, disputes, order_locks, jobs, tasks, ledger, outreach, reviews>>

\* a confirm that does not look at the status it has read
ConfirmReadAnyStatus(t, o, u) ==
    /\ Entering(t, "confirm", o, u)
    /\ LockFree(o)
    /\ IF Exists(o)
         THEN Acquire(t, o) /\ Goto(t, "confirm", "write", o, u, NoRow)
         ELSE Finish(t) /\ UNCHANGED order_locks
    /\ UNCHANGED <<users, orders, disputes, jobs, tasks, ledger, outreach, reviews>>

\* with lk: SELECT status, accepted_by; no row or a status other than
\* AWAITING_CUSTOMER_CONFIRM is rejected
ConfirmRead(t, o, u) ==
    /\ Entering(t, "confirm", o, u)
    /\ LockFree(o)
    /\ IF Exists(o) /\ orders[o].status = "AWAITING_CUSTOMER_CONFIRM"
         THEN Acquire(t, o) /\ Goto(t, "confirm", "write", o, u, NoRow)
         ELSE Finish(t) /\ UNCHANGED order_locks
    /\ UNCHANGED <<users, orders, disputes, jobs, tasks, ledger, outreach, reviews>>

\* UPDATE orders SET status='IN_PROGRESS'; commit; the Lock is released
ConfirmWrite(t) ==
    LET o == threads[t].order_id IN
    /\ Running(t, "confirm", "write")
    /\ orders' = [orders EXCEPT ![o].status = "IN_PROGRESS"]
    /\ Release(o)
    /\ Finish(t)
    /\ UNCHANGED <<users, disputes, jobs, tasks, ledger, outreach, reviews>>

\* ------------------------------------------------ callback_customer_cancel
CancelWait(t, o, u) ==
    /\ ~LockFree(o)
    /\ Wait(t, "cancel", o, u)
    /\ UNCHANGED <<users, orders, disputes, order_locks, jobs, tasks, ledger, outreach, reviews>>

\* with lk: SELECT status, frozen_amount, creator_tg.  The creator cancels
\* an order's confirmation at most MaxCancels times.
CancelRead(t, o, u) ==
    /\ Entering(t, "cancel", o, u)
    /\ Exists(o) => ledger[o].cancels < MaxCancels
    /\ LockFree(o)
    /\ IF Exists(o) /\ orders[o].status = "AWAITING_CUSTOMER_CONFIRM"
         THEN /\ Acquire(t, o)
              /\ Goto(t, "cancel", "write", o, u,
                      [frozen_amount |-> orders[o].frozen_amount,
                       accepted_by |-> NULL])
         ELSE Finish(t) /\ UNCHANGED order_locks
    /\ UNCHANGED <<users, orders, disputes, jobs, tasks, ledger, outreach, reviews>>

\* a cancel that republishes the order with its executor still assigned
CancelledOrderKeepsExecutor(ord) == [ord EXCEPT !.status = "PUBLISHED"]

\* the order row after the cancel's UPDATE: status, accepted_by (and
\* accept_ts) are reset; frozen_amount is not among the columns it sets
CancelledOrder(ord) ==
    [ord EXCEPT !.status = "PUBLISHED", !.accepted_by = NULL]

\* BEGIN IMMEDIATE; the creator gets frozen_amount back; the order is
\* PUBLISHED again; commit; the Lock is released
CancelWrite(t) ==
    LET o == threads[t].order_id
        amount == threads[t].row.frozen_amount
        creator == orders[o].creator_tg
    IN
    /\ Running(t, "cancel", "write")
    /\ users' = [users EXCEPT
                   ![creator].balance_coins = @ + amount,
                   ![creator].frozen_total_coins = @ - amount]
    /\ orders' = [orders EXCEPT ![o] = CancelledOrder(@)]
    /\ ledger' = [ledger EXCEPT ![o].released = @ + amount,
                                ![o].cancels = @ + 1]
    /\ Release(o)
    /\ Finish(t)
    /\ UNCHANGED <<disputes, jobs, tasks, outreach, reviews>>

\* a statement of the transaction raises: conn.rollback(); the Lock is
\* released; nothing has been written
CancelFail(t) ==
    /\ Running(t, "cancel", "write")
    /\ Release(threads[t].order_id)
    /\ Finish(t)
    /\ UNCHANGED <<users, orders, disputes, jobs, tasks, ledger, outreach, reviews>>

\* ------------------------------------------------------- callback_complete
CompleteWait(t, o, u) ==
    /\ ~LockFree(o)
    /\ Wait(t, "complete", o, u)
    /\ UNCHANGED <<users, orders, disputes, order_locks, jobs, tasks, ledger, outreach, reviews>>

\* a complete that does not compare the caller with accepted_by
CompleteReadAnyCaller(t, o, u) ==
    /\ Entering(t, "complete", o, u)
    /\ LockFree(o)
    /\ IF Exists(o) /\ orders[o].status = "IN_PROGRESS"
         THEN Acquire(t, o) /\ Goto(t, "complete", "write", o, u, NoRow)
         ELSE Finish(t) /\ UNCHANGED order_locks
    /\ UNCHANGED <<users, orders, disputes, jobs, tasks, ledger, outreach, reviews>>

\* with lk: SELECT status, accepted_by, creator_tg; only the assigned
\* executor of an IN_PROGRESS order passes
CompleteRead(t, o, u) ==
    /\ Entering(t, "complete", o, u)
    /\ LockFree(o)
    /\ IF /\ Exists(o)
          /\ orders[o].status = "IN_PROGRESS"
          /\ orders[o].accepted_by = u
         THEN Acquire(t, o) /\ Goto(t, "complete", "write", o, u, NoRow)
         ELSE Finish(t) /\ UNCHANGED order_locks
    /\ UNCHANGED <<users, orders, disputes, jobs, tasks, ledger, outreach, reviews>>

\* a complete that pays the executor as it commits the status
CompleteWritePaying(t) ==
    LET o == threads[t].order_id IN
    /\ Running(t, "complete", "write")
    /\ orders' = [orders EXCEPT ![o].status = "AWAITING_CLIENT_APPROVAL"]
    /\ users' = [users EXCEPT
                   ![threads[t].user].balance_coins = @ + orders[o].frozen_amount]
    /\ threads' = [threads EXCEPT ![t].pc = "post"]
    /\ UNCHANGED <<disputes, order_locks, jobs, tasks, ledger, outreach, reviews>>

\* UPDATE orders SET status='AWAITING_CLIENT_APPROVAL'; commit
CompleteWrite(t) ==
    LET o == threads[t].order_id IN
    /\ Running(t, "complete", "write")
    /\ orders' = [orders EXCEPT ![o].status = "AWAITING_CLIENT_APPROVAL"]
    /\ threads' = [threads EXCEPT ![t].pc = "post"]
    /\ UNCHANGED <<users, disputes, order_locks, jobs, tasks, ledger, outreach, reviews>>

\* schedule_auto_release (replace_existing=True); the Lock is released
CompletePost(t) ==
    LET o == threads[t].order_id IN
    /\ Running(t, "complete", "post")
    /\ jobs' = AddJob(JobId("auto_release", o))
    /\ Release(o)
    /\ Finish(t)
    /\ UNCHANGED <<users, orders, disputes, tasks, ledger, outreach, reviews>>

\* ------------------------------------------------------------ the transfer
\* a transfer that commits the two users UPDATEs without the orders UPDATE
TransferFundsOnly(o, row) ==
    LET creator == orders[o].creator_tg IN
    /\ users' = [u \in Users |->
                   [balance_coins |->
                        users[u].balance_coins
                        + (IF u = row.accepted_by THEN row.frozen_amount ELSE 0),
                    frozen_total_coins |->
                        users[u].frozen_total_coins
                        - (IF u = creator THEN row.frozen_amount ELSE 0)]]
    /\ orders' = orders
    /\ ledger' = [ledger EXCEPT ![o].credited = @ + row.frozen_amount,
                                ![o].debited = @ + row.frozen_amount,
                                ![o].transfers = @ + 1]

\* a transfer that credits the executor without debiting the creator's
\* frozen total
TransferCreditOnly(o, row) ==
    /\ users' = [users EXCEPT
                   ![row.accepted_by].balance_coins = @ + row.frozen_amount]
    /\ orders' = [orders EXCEPT ![o].status = "COMPLETED",
                                ![o].frozen_amount = 0]
    /\ ledger' = [ledger EXCEPT ![o].credited = @ + row.frozen_amount,
                                ![o].transfers = @ + 1]

\* BEGIN IMMEDIATE; the executor's balance is credited and the creator's
\* frozen total debited by the frozen_amount the caller read; the order is
\* COMPLETED with frozen_amount 0; commit.  The same three UPDATEs are in
\* callback_approve and in the auto_release task.
Transfer(o, row) ==
    LET creator == orders[o].creator_tg IN
    /\ users' = [u \in Users |->
                   [balance_coins |->
                        users[u].balance_coins
                        + (IF u = row.accepted_by THEN row.frozen_amount ELSE 0),
                    frozen_total_coins |->
                        users[u].frozen_total_coins
                        - (IF u = creator THEN row.frozen_amount ELSE 0)]]
    /\ orders' = [orders EXCEPT ![o].status = "COMPLETED",
                                ![o].frozen_amount = 0]
    /\ ledger' = [ledger EXCEPT ![o].credited = @ + row.frozen_amount,
                                ![o].debited = @ + row.frozen_amount,
                                ![o].transfers = @ + 1]

\* the row both callers read: SELECT status, frozen_amount, accepted_by
TransferRow(o) ==
    [frozen_amount |-> orders[o].frozen_amount,
     accepted_by |-> orders[o].accepted_by]

\* status AWAITING_CLIENT_APPROVAL, funds frozen, an executor assigned
TransferGuard(o) ==
    /\ Exists(o)
    /\ orders[o].status = "AWAITING_CLIENT_APPROVAL"
    /\ orders[o].frozen_amount # 0
    /\ orders[o].accepted_by # NULL

\* -------------------------------------------------------- callback_approve
\* resolve_order_identifier found the order; another thread holds the Lock
ApproveWait(t, o, u) ==
    /\ Exists(o)
    /\ ~LockFree(o)
    /\ Wait(t, "approve", o, u)
    /\ UNCHANGED <<users, orders, disputes, order_locks, jobs, tasks, ledger, outreach, reviews>>

ApproveRead(t, o, u) ==
    /\ Entering(t, "approve", o, u)
    /\ Exists(o)
    /\ LockFree(o)
    /\ IF TransferGuard(o)
         THEN Acquire(t, o) /\ Goto(t, "approve", "write", o, u, TransferRow(o))
         ELSE Finish(t) /\ UNCHANGED order_locks
    /\ UNCHANGED <<users, orders, disputes, jobs, tasks, ledger, outreach, reviews>>

ApproveWrite(t) ==
    LET o == threads[t].order_id IN
    /\ Running(t, "approve", "write")
    /\ Transfer(o, threads[t].row)
    /\ Release(o)
    /\ Finish(t)
    /\ UNCHANGED <<disputes, jobs, tasks, outreach, reviews>>

\* a statement of the transaction raises: conn.rollback(), return
ApproveFail(t) ==
    /\ Running(t, "approve", "write")
    /\ Release(threads[t].order_id)
    /\ Finish(t)
    /\ UNCHANGED <<users, orders, disputes, jobs, tasks, ledger, outreach, reviews>>

\* --------------------------------------------- schedule_auto_release.task
\* The scheduler runs the pending job: it leaves the job store, and the
\* task reads the order row.  The task takes no Lock.
AutoReleaseRead(o) ==
    /\ Pending(JobId("auto_release", o))
    /\ tasks[o].pc = "none"
    /\ jobs' = RunJob(JobId("auto_release", o))
    /\ tasks' = IF TransferGuard(o)
                  THEN [tasks EXCEPT ![o] = [pc |-> "write", row |-> TransferRow(o)]]
                  ELSE tasks
    /\ UNCHANGED <<users, orders, disputes, order_locks, threads, ledger, outreach, reviews>>

AutoReleaseWrite(o) ==
    /\ tasks[o].pc = "write"
    /\ Transfer(o, tasks[o].row)
    /\ tasks' = [tasks EXCEPT ![o] = NoTask]
    /\ UNCHANGED <<disputes, order_locks, jobs, threads, outreach, reviews>>

\* a statement of the transaction raises: conn.rollback(), return
AutoReleaseFail(o) ==
    /\ tasks[o].pc = "write"
    /\ tasks' = [tasks EXCEPT ![o] = NoTask]
    /\ UNCHANGED <<users, orders, disputes, order_locks, jobs, threads, ledger, outreach, reviews>>

\* -------------------------------------------- schedule_accept_timeout.task
\* what the task checks before it sends the escalation to accepted_by:
\* the order is AWAITING_CUSTOMER_CONFIRM and has an accepted_by
TimeoutSends(o) ==
    /\ Exists(o)
    /\ orders[o].status = "AWAITING_CUSTOMER_CONFIRM"
    /\ orders[o].accepted_by # NULL

\* a timeout that cancels the acceptance the customer has not confirmed
ConfirmTimeoutAutoCancel(o) ==
    /\ Pending(JobId("confirm_timeout", o))
    /\ jobs' = RunJob(JobId("confirm_timeout", o))
    /\ ledger' = [ledger EXCEPT ![o].timeout_for = NULL]
    /\ orders' = IF TimeoutSends(o)
                    THEN [orders EXCEPT ![o] = CancelledOrder(@)]
                    ELSE orders
    /\ UNCHANGED <<users, disputes, order_locks, threads, tasks, outreach, reviews>>

\* The job leaves the job store; the task reads the order and, if
\* TimeoutSends, sends a message to the order's accepted_by: it writes
\* nothing.
ConfirmTimeout(o) ==
    /\ Pending(JobId("confirm_timeout", o))
    /\ jobs' = RunJob(JobId("confirm_timeout", o))
    /\ ledger' = [ledger EXCEPT
                    ![o].timeout_for = NULL,
                    ![o].escalations = IF TimeoutSends(o) THEN @ + 1 ELSE @]
    /\ UNCHANGED <<users, orders, disputes, order_locks, threads, tasks, outreach, reviews>>

\* --------------------------------------------------- callback_open_dispute
\* what the handler checks before it writes: the order row exists and the
\* disputes table has no row for it.  No Lock is taken and the order's
\* status is not read.
DisputeGuard(o) == Exists(o) /\ disputes[o] = 0

\* SELECT id, creator_tg, accepted_by FROM orders; SELECT id FROM disputes
DisputeRead(t, o) ==
    /\ FreeThread(t)
    /\ IF DisputeGuard(o)
         THEN Goto(t, "dispute", "write", o, 0, NoRow)
         ELSE Finish(t)
    /\ UNCHANGED <<users, orders, disputes, order_locks, jobs, tasks, ledger, outreach, reviews>>

\* an open-dispute that hands the escrow back to the creator as it writes
DisputeWriteReleasing(t) ==
    LET o == threads[t].order_id
        creator == orders[o].creator_tg
        amount == orders[o].frozen_amount
    IN
    /\ Running(t, "dispute", "write")
    /\ disputes' = [disputes EXCEPT ![o] = @ + 1]
    /\ orders' = [orders EXCEPT ![o].status = "DISPUTE"]
    /\ users' = [users EXCEPT ![creator].balance_coins = @ + amount,
                              ![creator].frozen_total_coins = @ - amount]
    /\ Finish(t)
    /\ UNCHANGED <<order_locks, jobs, tasks, ledger, outreach, reviews>>

\* INSERT INTO disputes; UPDATE orders SET status='DISPUTE'; commit
DisputeWrite(t) ==
    LET o == threads[t].order_id IN
    /\ Running(t, "dispute", "write")
    /\ disputes' = [disputes EXCEPT ![o] = @ + 1]
    /\ orders' = [orders EXCEPT ![o].status = "DISPUTE"]
    /\ Finish(t)
    /\ UNCHANGED <<users, order_locks, jobs, tasks, ledger, outreach, reviews>>

\* ------------------------------------------------------------------- Next
Next ==
    \/ \E c \in Users, p \in Prices : CreateOrder(c, p)
    \/ \E c \in Users, p \in Prices : CreateRejected(c, p)
    \/ \E t \in Threads, o \in OrderIds, u \in Users : AcceptWait(t, o, u)
    \/ \E t \in Threads : AcceptBusy(t)
    \/ \E t \in Threads, o \in OrderIds, u \in Users : AcceptRead(t, o, u)
    \/ \E t \in Threads : AcceptWrite(t)
    \/ \E t \in Threads : AcceptPost(t)
    \/ \E t \in Threads : AcceptAnswerFails(t)
    \/ \E t \in Threads, o \in OrderIds, u \in Users : ConfirmWait(t, o, u)
    \/ \E t \in Threads, o \in OrderIds, u \in Users : ConfirmRead(t, o, u)
    \/ \E t \in Threads : ConfirmWrite(t)
    \/ \E t \in Threads, o \in OrderIds, u \in Users : CancelWait(t, o, u)
    \/ \E t \in Threads, o \in OrderIds, u \in Users : CancelRead(t, o, u)
    \/ \E t \in Threads : CancelWrite(t)
    \/ \E t \in Threads : CancelFail(t)
    \/ \E t \in Threads, o \in OrderIds, u \in Users : CompleteWait(t, o, u)
    \/ \E t \in Threads, o \in OrderIds, u \in Users : CompleteRead(t, o, u)
    \/ \E t \in Threads : CompleteWrite(t)
    \/ \E t \in Threads : CompletePost(t)
    \/ \E t \in Threads, o \in OrderIds, u \in Users : ApproveWait(t, o, u)
    \/ \E t \in Threads, o \in OrderIds, u \in Users : ApproveRead(t, o, u)
    \/ \E t \in Threads : ApproveWrite(t)
    \/ \E t \in Threads : ApproveFail(t)
    \/ \E o \in OrderIds : AutoReleaseRead(o)
    \/ \E o \in OrderIds : AutoReleaseWrite(o)
    \/ \E o \in OrderIds : AutoReleaseFail(o)
    \/ \E o \in OrderIds : ConfirmTimeout(o)
    \/ \E t \in Threads, o \in OrderIds : DisputeRead(t, o)
    \/ \E t \in Threads : DisputeWrite(t)

Spec == Init /\ [][Next]_vars

\* ------------------------------------------------- the auto-release alone
\* The program when the creator never approves, nobody opens a dispute and
\* the database does not fail.  A handler that has committed goes on to
\* schedule its job (the worker thread keeps running), the scheduler runs a
\* pending auto_release job when it is due, and a running task goes on to
\* its transaction.
NextTimeout ==
    \/ \E c \in Users, p \in Prices : CreateOrder(c, p)
    \/ \E c \in Users, p \in Prices : CreateRejected(c, p)
    \/ \E t \in Threads, o \in OrderIds, u \in Users : AcceptWait(t, o, u)
    \/ \E t \in Threads : AcceptBusy(t)
    \/ \E t \in Threads, o \in OrderIds, u \in Users : AcceptRead(t, o, u)
    \/ \E t \in Threads : AcceptWrite(t)
    \/ \E t \in Threads : AcceptPost(t)
    \/ \E t \in Threads, o \in OrderIds, u \in Users : ConfirmWait(t, o, u)
    \/ \E t \in Threads, o \in OrderIds, u \in Users : ConfirmRead(t, o, u)
    \/ \E t \in Threads : ConfirmWrite(t)
    \/ \E t \in Threads, o \in OrderIds, u \in Users : CancelWait(t, o, u)
    \/ \E t \in Threads, o \in OrderIds, u \in Users : CancelRead(t, o, u)
    \/ \E t \in Threads : CancelWrite(t)
    \/ \E t \in Threads, o \in OrderIds, u \in Users : CompleteWait(t, o, u)
    \/ \E t \in Threads, o \in OrderIds, u \in Users : CompleteRead(t, o, u)
    \/ \E t \in Threads : CompleteWrite(t)
    \/ \E t \in Threads : CompletePost(t)
    \/ \E o \in OrderIds : AutoReleaseRead(o)
    \/ \E o \in OrderIds : AutoReleaseWrite(o)
    \/ \E o \in OrderIds : ConfirmTimeout(o)

SpecTimeout ==
    /\ Init
    /\ [][NextTimeout]_vars
    /\ \A t \in Threads : WF_vars(CompletePost(t))
    /\ \A o \in OrderIds : WF_vars(AutoReleaseRead(o))
    /\ \A o \in OrderIds : WF_vars(AutoReleaseWrite(o))

\* ------------------------------------------------- find_executors_within
\* The distance of executor e from the order's location.  The nearest one is
\* inside the initial radius, each next one a step further out.
Distance(e) == INITIAL_RADIUS_KM + (e - 1) * EXPANSION_STEP_KM

\* the executors at distance <= radius_km (there are fewer of them than
\* MAX_NOTIFY_EXECUTORS, so the limit cuts nothing)
find_executors_within(radius_km) ==
    {e \in Executors : Distance(e) <= radius_km}

\* candidates.sort(key=distance): the loops take the nearest one first
Nearest(S) == CHOOSE e \in S : \A f \in S : Distance(e) <= Distance(f)

\* ---------------------------------------------- notify_executors_of_order
\* callback_confirm_create starts the thread; SELECT the order row with its
\* radius_km; the targets are the executors within that radius
NotifyStart(o) ==
    LET targets == find_executors_within(orders[o].radius_km) IN
    /\ Exists(o)
    /\ notifier[o].pc = "none"
    /\ notifier' = [notifier EXCEPT ![o] =
                      [pc |-> IF targets = {} THEN "done" ELSE "check",
                       targets |-> targets]]
    /\ UNCHANGED <<users, orders, disputes, order_locks, jobs, threads, tasks,
                   ledger, notifications, offers, expansion, reviews>>

\* SELECT 1 FROM notifications WHERE order_id=? AND executor_tg=?
NotifyCheck(o) ==
    LET e == Nearest(notifier[o].targets) IN
    /\ notifier[o].pc = "check"
    /\ notifier' = [notifier EXCEPT ![o].pc =
                      IF notifications[o][e] > 0 THEN "send" ELSE "insert"]
    /\ UNCHANGED <<users, orders, disputes, order_locks, jobs, threads, tasks,
                   ledger, notifications, offers, expansion, reviews>>

\* no row was found: INSERT INTO notifications; commit
NotifyInsert(o) ==
    LET e == Nearest(notifier[o].targets) IN
    /\ notifier[o].pc = "insert"
    /\ notifications' = [notifications EXCEPT ![o][e] = @ + 1]
    /\ notifier' = [notifier EXCEPT ![o].pc = "send"]
    /\ UNCHANGED <<users, orders, disputes, order_locks, jobs, threads, tasks,
                   ledger, offers, expansion, reviews>>

\* bot.send_message(tg_id, msg): the offer is delivered, or the call raises
\* and is logged; the loop goes on to the next target
NotifySend(o, delivered) ==
    LET e == Nearest(notifier[o].targets)
        rest == notifier[o].targets \ {e}
    IN
    /\ notifier[o].pc = "send"
    /\ offers' = IF delivered THEN [offers EXCEPT ![o][e] = @ + 1] ELSE offers
    /\ notifier' = [notifier EXCEPT ![o] =
                      [pc |-> IF rest = {} THEN "done" ELSE "check",
                       targets |-> rest]]
    /\ UNCHANGED <<users, orders, disputes, order_locks, jobs, threads, tasks,
                   ledger, notifications, expansion, reviews>>

\* ----------------------------------------------------------- expansion_job
\* a radius that never stops growing
ExpandableAlways(radius_km) == TRUE

\* new_radius > MAX_RADIUS_KM: the order is skipped
Expandable(radius_km) == radius_km + EXPANSION_STEP_KM <= MAX_RADIUS_KM

\* the tick goes on to the next row of its SELECT, or ends
NextRow(rows) ==
    [pc |-> IF rows = {} THEN "idle" ELSE "row", rows |-> rows,
     order_id |-> 0, new_radius |-> 0, newly |-> {}]

\* The scheduler starts the interval job (one instance at a time):
\* SELECT id FROM orders WHERE status='PUBLISHED' AND lat IS NOT NULL
ExpansionSelect ==
    /\ expansion.pc = "idle"
    /\ expansion' = NextRow({o \in 1..Len(orders) :
                                orders[o].status = "PUBLISHED"})
    /\ UNCHANGED <<users, orders, disputes, order_locks, jobs, threads, tasks,
                   ledger, notifications, offers, notifier, reviews>>

\* SELECT radius_km FROM orders WHERE id=?; SELECT executor_tg FROM
\* notifications WHERE order_id=?; find_executors_within(new_radius).  The
\* status is not among the columns read.
ExpansionRead ==
    LET o == CHOOSE r \in expansion.rows : \A q \in expansion.rows : r <= q
        new_radius == orders[o].radius_km + EXPANSION_STEP_KM
        already == {e \in Executors : notifications[o][e] > 0}
    IN
    /\ expansion.pc = "row"
    /\ expansion' =
         IF Expandable(orders[o].radius_km)
           THEN [pc |-> "notify", rows |-> expansion.rows \ {o},
                 order_id |-> o, new_radius |-> new_radius,
                 newly |-> find_executors_within(new_radius) \ already]
           ELSE NextRow(expansion.rows \ {o})
    /\ UNCHANGED <<users, orders, disputes, order_locks, jobs, threads, tasks,
                   ledger, notifications, offers, notifier, reviews>>

\* bot.send_message(tg, ...), then INSERT INTO notifications and commit; a
\* send that raises is logged and nothing is recorded
ExpansionNotify(delivered) ==
    LET o == expansion.order_id
        e == Nearest(expansion.newly)
    IN
    /\ expansion.pc = "notify"
    /\ expansion.newly # {}
    /\ offers' = IF delivered THEN [offers EXCEPT ![o][e] = @ + 1] ELSE offers
    /\ notifications' = IF delivered
                          THEN [notifications EXCEPT ![o][e] = @ + 1]
                          ELSE notifications
    /\ expansion' = [expansion EXCEPT !.newly = @ \ {e}]
    /\ UNCHANGED <<users, orders, disputes, order_locks, jobs, threads, tasks,
                   ledger, notifier, reviews>>

\* UPDATE orders SET radius_km=new_radius WHERE id=?; commit
ExpansionUpdate ==
    LET o == expansion.order_id IN
    /\ expansion.pc = "notify"
    /\ expansion.newly = {}
    /\ orders' = [orders EXCEPT ![o].radius_km = expansion.new_radius]
    /\ expansion' = NextRow(expansion.rows)
    /\ UNCHANGED <<users, disputes, order_locks, jobs, threads, tasks, ledger,
                   notifications, offers, notifier, reviews>>

\* --------------------------------------- the order's offers and its radius
\* The program from the creation of an order to its acceptance: the
\* notifier thread and the expansion ticks, next to accept and openDispute.
NextExpand ==
    \/ \E c \in Users, p \in Prices : CreateOrder(c, p)
    \/ \E o \in OrderIds : NotifyStart(o)
    \/ \E o \in OrderIds : NotifyCheck(o)
    \/ \E o \in OrderIds : NotifyInsert(o)
    \/ \E o \in OrderIds, delivered \in BOOLEAN : NotifySend(o, delivered)
    \/ ExpansionSelect
    \/ ExpansionRead
    \/ \E delivered \in BOOLEAN : ExpansionNotify(delivered)
    \/ ExpansionUpdate
    \/ \E t \in Threads, o \in OrderIds, u \in Users : AcceptRead(t, o, u)
    \/ \E t \in Threads : AcceptWrite(t)
    \/ \E t \in Threads : AcceptPost(t)
    \/ \E t \in Threads, o \in OrderIds : DisputeRead(t, o)
    \/ \E t \in Threads : DisputeWrite(t)

SpecExpand == Init /\ [][NextExpand]_vars

\* ------------------------------------------------------------ save_rating
\* the other party of the order, for a rater who is its creator or its
\* accepted_by; NULL for anybody else and while no executor is assigned
RateTarget(o, u) ==
    IF u = orders[o].creator_tg THEN orders[o].accepted_by
    ELSE IF u = orders[o].accepted_by THEN orders[o].creator_tg
    ELSE NULL

\* a ratings table without UNIQUE(order_id, from_tg)
InsertRatingNoUnique(rows, row) == Append(rows, row)

\* INSERT INTO ratings: with a row of the same (order_id, from_tg) in the
\* table the statement raises IntegrityError and nothing is written
InsertRating(rows, row) == IF rows = << >> THEN << row >> ELSE rows

\* an UPDATE that sets both columns whatever was supplied
UpdateRatingBoth(row, stars, comment) ==
    [row EXCEPT !.stars = stars, !.comment = comment]

\* UPDATE ratings SET ...: stars and comment, stars alone or comment alone,
\* as supplied
UpdateRating(row, stars, comment) ==
    IF stars # NULL /\ comment # NULL
      THEN [row EXCEPT !.stars = stars, !.comment = comment]
    ELSE IF stars # NULL THEN [row EXCEPT !.stars = stars]
    ELSE IF comment # NULL THEN [row EXCEPT !.comment = comment]
    ELSE row

\* the UPDATE applies to every row WHERE order_id=? AND from_tg=?
UpdateRows(rows, stars, comment) ==
    [i \in 1..Len(rows) |-> UpdateRating(rows[i], stars, comment)]

\* callback_rate: SELECT creator_tg, accepted_by FROM orders; a caller who
\* is no party of the order is turned away; save_rating: SELECT id FROM
\* ratings WHERE order_id=? AND from_tg=?
RateRead(t, o, u, stars) ==
    /\ FreeThread(t)
    /\ IF Exists(o) /\ RateTarget(o, u) # NULL
         THEN /\ Goto(t, "rate", "write", o, u, NoRow)
              /\ rating_calls' = [rating_calls EXCEPT ![t] =
                                    [to_tg |-> RateTarget(o, u),
                                     stars |-> stars, comment |-> NULL,
                                     found |-> ratings[o][u] # << >>]]
         ELSE UNCHANGED <<threads, rating_calls>>
    /\ UNCHANGED <<users, orders, disputes, order_locks, jobs, tasks, ledger,
                   outreach, ratings>>

\* save_rating: UPDATE the row that was found, or INSERT; commit
RateWrite(t) ==
    LET o == threads[t].order_id
        u == threads[t].user
        call == rating_calls[t]
    IN
    /\ Running(t, "rate", "write")
    /\ ratings' = [ratings EXCEPT ![o][u] =
                     IF call.found
                       THEN UpdateRows(@, call.stars, call.comment)
                       ELSE InsertRating(@, [to_tg |-> call.to_tg,
                                             stars |-> call.stars,
                                             comment |-> call.comment])]
    /\ rating_calls' = [rating_calls EXCEPT ![t] = NoRating]
    /\ Finish(t)
    /\ UNCHANGED <<users, orders, disputes, order_locks, jobs, tasks, ledger,
                   outreach>>

\* ------------------------------------- callback_comment, handle_comment_text
\* callback_comment has let the caller in as a party of the order; the text
\* arrives: SELECT 1 FROM ratings WHERE order_id=? AND from_tg=?
CommentRead(t, o, u, comment) ==
    /\ FreeThread(t)
    /\ IF Exists(o) /\ RateTarget(o, u) # NULL
         THEN /\ Goto(t, "comment", "write", o, u, NoRow)
              /\ rating_calls' = [rating_calls EXCEPT ![t] =
                                    [to_tg |-> RateTarget(o, u),
                                     stars |-> NULL, comment |-> comment,
                                     found |-> ratings[o][u] # << >>]]
         ELSE UNCHANGED <<threads, rating_calls>>
    /\ UNCHANGED <<users, orders, disputes, order_locks, jobs, tasks, ledger,
                   outreach, ratings>>

\* UPDATE ratings SET comment=?, or INSERT a row with stars NULL; commit (a
\* statement that raises is rolled back)
CommentWrite(t) ==
    LET o == threads[t].order_id
        u == threads[t].user
        call == rating_calls[t]
    IN
    /\ Running(t, "comment", "write")
    /\ ratings' = [ratings EXCEPT ![o][u] =
                     IF call.found
                       THEN UpdateRows(@, NULL, call.comment)
                       ELSE InsertRating(@, [to_tg |-> call.to_tg,
                                             stars |-> NULL,
                                             comment |-> call.comment])]
    /\ rating_calls' = [rating_calls EXCEPT ![t] = NoRating]
    /\ Finish(t)
    /\ UNCHANGED <<users, orders, disputes, order_locks, jobs, tasks, ledger,
                   outreach>>

\* ------------------------------------------------------ compute_avg_rating
\* the rows selected by WHERE to_tg=? AND stars IS NOT NULL, as
\* <<order_id, from_tg, position>>
RatedRows(to_tg) ==
    UNION { { <<o, f, i>> : i \in { j \in 1..Len(ratings[o][f]) :
                                      /\ ratings[o][f][j].to_tg = to_tg
                                      /\ ratings[o][f][j].stars # NULL } } :
            <<o, f>> \in OrderIds \X Users }

RECURSIVE SumStars(_)
SumStars(K) ==
    IF K = {} THEN 0
    ELSE LET k == CHOOSE x \in K : TRUE
         IN  ratings[k[1]][k[2]][k[3]].stars + SumStars(K \ {k})

\* the function returns None: no number
None == [num |-> 0, den |-> 0]

\* SELECT AVG(stars): the quotient num / den of the selected rows, and None
\* when no row is selected
compute_avg_rating(to_tg) ==
    LET K == RatedRows(to_tg) IN
    IF K = {} THEN None
    ELSE [num |-> SumStars(K), den |-> Cardinality(K)]

\* ------------------------------------------------------ the ratings alone
\* The program while the two parties of an accepted order rate each other.
NextRate ==
    \/ \E c \in Users, p \in Prices : CreateOrder(c, p)
    \/ \E t \in Threads, o \in OrderIds, u \in Users : AcceptRead(t, o, u)
    \/ \E t \in Threads : AcceptWrite(t)
    \/ \E t \in Threads : AcceptPost(t)
    \/ \E t \in Threads, o \in OrderIds, u \in Users, stars \in Stars :
           RateRead(t, o, u, stars)
    \/ \E t \in Threads : RateWrite(t)
    \/ \E t \in Threads, o \in OrderIds, u \in Users, comment \in Comments :
           CommentRead(t, o, u, comment)
    \/ \E t \in Threads : CommentWrite(t)

SpecRate == Init /\ [][NextRate]_vars

\* ------------------------------------------- ratings across acceptances
\* The program while stars are given on an order whose acceptance the
\* creator may cancel, after which another executor may accept it.
NextRerate ==
    \/ \E c \in Users, p \in Prices : CreateOrder(c, p)
    \/ \E t \in Threads, o \in OrderIds, u \in Users : AcceptRead(t, o, u)
    \/ \E t \in Threads : AcceptWrite(t)
    \/ \E t \in Threads : AcceptPost(t)
    \/ \E t \in Threads, o \in OrderIds, u \in Users : CancelRead(t, o, u)
    \/ \E t \in Threads : CancelWrite(t)
    \/ \E t \in Threads, o \in OrderIds, u \in Users, stars \in Stars :
           RateRead(t, o, u, stars)
    \/ \E t \in Threads : RateWrite(t)

SpecRerate == Init /\ [][NextRerate]_vars

\* ------------------------------------------------- steps of a tick
\* the tick reads order o's row and skips it
TickSkips(o) ==
    /\ expansion.pc = "row"
    /\ o \in expansion.rows
    /\ \A q \in expansion.rows : o <= q
    /\ expansion' # expansion
    /\ expansion'.pc # "notify"

\* the tick commits its UPDATE of order o's radius
TickUpdates(o) ==
    /\ expansion.pc = "notify"
    /\ expansion.order_id = o
    /\ expansion'.pc # "notify"

\* the tick sends the offer of order o to an executor
TickOffers(o) ==
    /\ expansion.pc = "notify"
    /\ expansion.order_id = o
    /\ offers'[o] # offers[o]

\* ----------------------------------------------------------- vocabulary
Placed == 1..Len(orders)

\* thread t is between the read of order o's row and the commit of its write
InWrite(t, o) == threads[t].pc = "write" /\ threads[t].order_id = o

\* thread t commits the accept it is running in this step
AcceptCommits(t) == Running(t, "accept", "write") /\ threads'[t].pc = "post"

\* thread t's accept ends in this step without having passed the status check
AcceptRejected(t) == Running(t, "accept", "begin") /\ threads'[t].op = "idle"

RECURSIVE FrozenOfCreator(_, _)
FrozenOfCreator(u, n) ==
    IF n = 0 THEN 0
    ELSE FrozenOfCreator(u, n - 1)
         + (IF orders[n].creator_tg = u THEN orders[n].frozen_amount ELSE 0)

RECURSIVE PriceSum(_, _, _)
\* the prices of the orders 1..n whose field f holds user u
PriceSum(u, f, n) ==
    IF n = 0 THEN 0
    ELSE PriceSum(u, f, n - 1) + (IF orders[n][f] = u THEN orders[n].price_coins ELSE 0)

NetWorth(u) == users[u].balance_coins + users[u].frozen_total_coins

AllowedEdges ==
    { <<"PUBLISHED", "AWAITING_CUSTOMER_CONFIRM">>,
      <<"AWAITING_CUSTOMER_CONFIRM", "IN_PROGRESS">>,
      <<"AWAITING_CUSTOMER_CONFIRM", "PUBLISHED">>,
      <<"IN_PROGRESS", "AWAITING_CLIENT_APPROVAL">>,
      <<"AWAITING_CLIENT_APPROVAL", "COMPLETED">>,
      <<"PUBLISHED", "DISPUTE">>,
      <<"AWAITING_CUSTOMER_CONFIRM", "DISPUTE">>,
      <<"IN_PROGRESS", "DISPUTE">>,
      <<"AWAITING_CLIENT_APPROVAL", "DISPUTE">> }

\* the handlers that check the order's status under its Lock, and the one
\* status each of them lets through
Guarded == {"accept", "confirm", "cancel", "complete", "approve"}

SourceState(op) ==
    CASE op = "accept" -> "PUBLISHED"
      [] op = "confirm" -> "AWAITING_CUSTOMER_CONFIRM"
      [] op = "cancel" -> "AWAITING_CUSTOMER_CONFIRM"
      [] op = "complete" -> "IN_PROGRESS"
      [] op = "approve" -> "AWAITING_CLIENT_APPROVAL"

\* ------------------------------------------------------------------ claims

\* C1: of the accepts running concurrently on one PUBLISHED order only one
\* passes the status check at a time: the accept that commits finds
\* accepted_by still NULL, leaves the order AWAITING_CUSTOMER_CONFIRM with
\* accepted_by its own caller, and every other accept on that order is
\* still waiting for the Lock; an accept that is turned away leaves the
\* orders table as it was, and an assigned executor is never replaced by
\* another one.
C1_OneAcceptWins ==
    [][ /\ \A t \in Threads :
            /\ AcceptCommits(t) =>
                 LET o == threads[t].order_id IN
                 /\ orders[o].accepted_by = NULL
                 /\ orders'[o].accepted_by = threads[t].user
                 /\ orders'[o].status = "AWAITING_CUSTOMER_CONFIRM"
                 /\ \A s \in Threads \ {t} :
                        (threads[s].op = "accept" /\ threads[s].order_id = o)
                            => threads[s].pc = "begin"
            /\ AcceptRejected(t) => orders' = orders
        /\ \A o \in Placed :
               orders[o].accepted_by # NULL
                   => orders'[o].accepted_by \in {orders[o].accepted_by, NULL}
      ]_vars

\* C1 witness: two executors accepted the same order at the same time; one
\* has committed and is the order's accepted_by, the other is still waiting
C1_Witness ==
    \E t \in Threads, s \in Threads :
        /\ Running(t, "accept", "post")
        /\ Running(s, "accept", "begin")
        /\ threads[s].order_id = threads[t].order_id
        /\ threads[s].user # threads[t].user
        /\ orders[threads[t].order_id].accepted_by = threads[t].user
        /\ orders[threads[t].order_id].status = "AWAITING_CUSTOMER_CONFIRM"

\* C2: fund conservation: for every order, price = frozen_amount + the coins
\* released back to the creator + the coins transferred to an executor.
C2_FundConservation ==
    \A o \in Placed :
        orders[o].price_coins =
            orders[o].frozen_amount + ledger[o].released + ledger[o].credited

\* C3: each creator's frozen total is the sum of frozen_amount over the
\* creator's orders.
C3_FrozenMatchesOrders ==
    \A u \in Users : users[u].frozen_total_coins = FrozenOfCreator(u, Len(orders))

\* C4: no balance and no frozen total is ever negative.
C4_NonNegative ==
    \A u \in Users : users[u].balance_coins >= 0 /\ users[u].frozen_total_coins >= 0

\* C5: an order that is COMPLETED has credited exactly its price to the
\* executor and debited exactly its price from the creator; once every order
\* is COMPLETED, each user's balance + frozen is what it was at the start,
\* plus the prices of the orders the user executed, minus the prices of the
\* orders the user created.
C5_CompletedPaysPriceOnce ==
    /\ \A o \in Placed :
           orders[o].status = "COMPLETED"
               => /\ ledger[o].credited = orders[o].price_coins
                  /\ ledger[o].debited = orders[o].price_coins
    /\ (\A o \in Placed : orders[o].status = "COMPLETED")
           => \A u \in Users :
                  NetWorth(u) = InitBalance(u)
                                + PriceSum(u, "accepted_by", Len(orders))
                                - PriceSum(u, "creator_tg", Len(orders))

\* C6: the transfer of an order's frozen_amount to the executor is performed
\* at most once, also when auto-release runs together with clientApprove.
C6_TransferAtMostOnce ==
    \A o \in Placed : ledger[o].transfers <= 1

\* C7: no two state-changing operations on the same order are at the same
\* time between their read of the order and the commit of their write.
C7_MutualExclusion ==
    \A o \in OrderIds : \A t \in Threads, s \in Threads :
        (InWrite(t, o) /\ InWrite(s, o)) => s = t

\* C8: every change of an order's status is one of the allowed edges.
C8_AllowedEdges ==
    [][ \A o \in Placed :
            orders'[o].status # orders[o].status
                => <<orders[o].status, orders'[o].status>> \in AllowedEdges ]_vars

\* C9: DISPUTE is terminal: once an order is in DISPUTE no step changes its
\* status, its frozen_amount or the coins moved for it.
C9_DisputeTerminal ==
    [][ \A o \in Placed :
            orders[o].status = "DISPUTE"
                => /\ orders'[o].status = "DISPUTE"
                   /\ orders'[o].frozen_amount = orders[o].frozen_amount
                   /\ ledger'[o] = ledger[o] ]_vars

\* C10: openDispute on a COMPLETED order is rejected: the handler does not
\* go on to its write, no Dispute row is added and the status stays COMPLETED.
C10_NoDisputeAfterCompleted ==
    [][ \A o \in Placed :
            orders[o].status = "COMPLETED"
                => /\ \A t \in Threads :
                          (FreeThread(t) /\ threads'[t].order_id = o)
                              => threads'[t].op # "dispute"
                   /\ disputes'[o] = disputes[o]
                   /\ orders'[o].status = "COMPLETED" ]_vars

\* C11: every order has at most one Dispute row, also when two openDispute
\* calls for the same order run at the same time.
C11_OneDisputePerOrder ==
    \A o \in OrderIds : disputes[o] <= 1

\* C12: openDispute moves no funds: a step of the open-dispute handler
\* leaves every balance and frozen total, the coins moved for the order and
\* the order's frozen_amount, price, creator and accepted_by as they were;
\* only the Dispute row and the order's status change.
C12_DisputeMovesNoFunds ==
    [][ \A t \in Threads :
            (threads[t].op = "dispute" /\ threads'[t] # threads[t])
                => LET o == threads[t].order_id IN
                   /\ users' = users
                   /\ ledger' = ledger
                   /\ orders' = [orders EXCEPT ![o].status = orders'[o].status]
                   /\ jobs' = jobs
      ]_vars

\* C12 witness: a dispute has been opened on an order whose funds are frozen;
\* they are still frozen
C12_Witness ==
    \E o \in Placed :
        /\ disputes[o] = 1
        /\ orders[o].status = "DISPUTE"
        /\ orders[o].frozen_amount > 0
        /\ users[orders[o].creator_tg].frozen_total_coins = orders[o].frozen_amount

\* C13: accept, customerConfirm, customerCancel, executorComplete and
\* clientApprove on an order that is not in the handler's source state are
\* rejected and change nothing: a handler goes on to its write only from a
\* read that found the source state, and a handler that has waited for the
\* Lock and then finds another status ends with the orders, the users, the
\* coins moved and the pending jobs as they were.
C13_RejectedIsNoOp ==
    [][ \A t \in Threads :
            /\ ( /\ threads[t].op \in Guarded
                 /\ threads[t].pc = "begin"
                 /\ threads'[t] # threads[t]
                 /\ Exists(threads[t].order_id)
                 /\ orders[threads[t].order_id].status # SourceState(threads[t].op) )
                    => /\ threads'[t] = Idle
                       /\ orders' = orders /\ users' = users
                       /\ jobs' = jobs /\ ledger' = ledger
                       /\ order_locks' = order_locks
            /\ ( /\ threads'[t].op \in Guarded
                 /\ threads'[t].pc = "write"
                 /\ threads[t].pc # "write" )
                    => /\ Exists(threads'[t].order_id)
                       /\ orders[threads'[t].order_id].status
                              = SourceState(threads'[t].op)
      ]_vars

\* C13 witness: an accept has waited for the Lock; the Lock is free now and
\* the order is no longer PUBLISHED, so the accept is about to be turned away
C13_Witness ==
    \E t \in Threads :
        /\ Running(t, "accept", "begin")
        /\ LockFree(threads[t].order_id)
        /\ orders[threads[t].order_id].status = "AWAITING_CUSTOMER_CONFIRM"
        /\ orders[threads[t].order_id].accepted_by # threads[t].user

\* C14: a create whose price is greater than the creator's balance, or whose
\* creator has no users row, does not reach the reservation: its balance
\* check ends the call with insufficient_funds (user_not_found) unless the
\* database fails first, and the call leaves the orders and every user's
\* balance and frozen total as they were.
C14_RejectedCreateLeavesNothing ==
    [][ \A t \in Threads :
            (Running(t, "create", "check") /\ threads'[t] # threads[t])
                => LET creator == threads[t].user
                       price == threads[t].row.frozen_amount
                   IN
                   /\ creator \notin Users
                          => /\ threads'[t].pc \in {"user_not_found", "db_error"}
                             /\ orders' = orders /\ users' = users
                   /\ (creator \in Users /\ users[creator].balance_coins < price)
                          => /\ threads'[t].pc \in {"insufficient_funds", "db_error"}
                             /\ orders' = orders /\ users' = users
      ]_vars

\* C14 witness: create has returned insufficient_funds to a creator whose
\* balance is below the price; the creator's funds are intact
C14_Witness ==
    \E t \in Threads :
        /\ Running(t, "create", "insufficient_funds")
        /\ users[threads[t].user].balance_coins < threads[t].row.frozen_amount
        /\ NetWorth(threads[t].user) = InitBalance(threads[t].user)
        /\ \A o \in Placed : orders[o].creator_tg # threads[t].user
                                  \/ orders[o].frozen_amount = orders[o].price_coins

\* C15: the reservation is an atomic check-and-update: a create commits only
\* when the creator's balance at that moment covers the price, so no balance
\* becomes negative and the prices of a creator's orders never add up to more
\* than the balance the creator had before them.
C15_ReserveIsAtomic ==
    /\ [][ \A t \in Threads :
               (Running(t, "create", "write") /\ threads'[t].pc = "created")
                   => users[threads[t].user].balance_coins
                          >= threads[t].row.frozen_amount ]_vars
    /\ [](\A u \in Users :
              /\ users[u].balance_coins >= 0
              /\ PriceSum(u, "creator_tg", Len(orders)) <= InitBalance(u))

\* C15 witness: a creator has spent the whole balance on earlier orders and
\* a further create of the same creator, for a price the balance covered at
\* the start, has been turned away
C15_Witness ==
    \E t \in Threads :
        /\ Running(t, "create", "insufficient_funds")
        /\ threads[t].row.frozen_amount <= InitBalance(threads[t].user)
        /\ users[threads[t].user].balance_coins = 0
        /\ PriceSum(threads[t].user, "creator_tg", Len(orders))
               = InitBalance(threads[t].user)

\* C16: a customerCancel that commits on an order AWAITING_CUSTOMER_CONFIRM
\* adds the order's frozen_amount to the creator's balance and subtracts it
\* from the creator's frozen total, changes no other user, clears
\* accepted_by and leaves the order PUBLISHED, the one status from which an
\* accept, by any executor, goes through.
C16_CancelRepublishes ==
    [][ \A t \in Threads :
            LET o == threads[t].order_id IN
            ( /\ Running(t, "cancel", "write")
              /\ ledger'[o].cancels = ledger[o].cancels + 1
              /\ orders[o].status = "AWAITING_CUSTOMER_CONFIRM" )
                => LET creator == orders[o].creator_tg
                       amount == orders[o].frozen_amount
                   IN
                   /\ users' = [users EXCEPT
                                  ![creator].balance_coins = @ + amount,
                                  ![creator].frozen_total_coins = @ - amount]
                   /\ orders'[o].accepted_by = NULL
                   /\ orders'[o].status = "PUBLISHED"
                   /\ orders'[o].status = SourceState("accept")
                   /\ order_locks'[o] = NULL
      ]_vars

\* C16 witness: the creator has cancelled an acceptance and got the coins
\* back, and the order has since been accepted again
C16_Witness ==
    \E o \in Placed :
        /\ ledger[o].cancels = 1
        /\ ledger[o].released = orders[o].price_coins
        /\ orders[o].price_coins > 0
        /\ orders[o].status = "AWAITING_CUSTOMER_CONFIRM"
        /\ orders[o].accepted_by # NULL

\* C17: the fund movement and the order write of create, customerCancel,
\* clientApprove and auto-release are one atomic unit.  A step of one of
\* these transactions either fails and leaves the users, the orders and the
\* coins moved exactly as they were, or commits the whole of it: the cancel
\* returns the amount and republishes the order, the transfer credits the
\* executor, debits the creator's frozen total and completes the order, the
\* create reserves the price and inserts the order with that frozen_amount.
\* No step changes the users table without writing an order in the same
\* transaction, and no order is created, or completed, without its funds
\* moving in the same step.
C17_FundsAndStatusAtomic ==
    [][ /\ \A t \in Threads :
              LET o == threads[t].order_id
                  row == threads[t].row
              IN
              /\ (Running(t, "cancel", "write") /\ threads'[t] # threads[t])
                    => \/ users' = users /\ orders' = orders /\ ledger' = ledger
                       \/ /\ users' = [users EXCEPT
                                 ![orders[o].creator_tg].balance_coins
                                     = @ + row.frozen_amount,
                                 ![orders[o].creator_tg].frozen_total_coins
                                     = @ - row.frozen_amount]
                          /\ orders'[o].status = "PUBLISHED"
                          /\ orders'[o].accepted_by = NULL
              /\ (Running(t, "approve", "write") /\ threads'[t] # threads[t])
                    => \/ users' = users /\ orders' = orders /\ ledger' = ledger
                       \/ /\ users'[row.accepted_by].balance_coins
                                 = users[row.accepted_by].balance_coins
                                   + row.frozen_amount
                          /\ users'[orders[o].creator_tg].frozen_total_coins
                                 = users[orders[o].creator_tg].frozen_total_coins
                                   - row.frozen_amount
                          /\ orders'[o].status = "COMPLETED"
                          /\ orders'[o].frozen_amount = 0
        /\ \A o \in OrderIds :
              (tasks[o].pc = "write" /\ tasks'[o] # tasks[o])
                 => LET row == tasks[o].row IN
                    \/ users' = users /\ orders' = orders /\ ledger' = ledger
                    \/ /\ users'[row.accepted_by].balance_coins
                              = users[row.accepted_by].balance_coins
                                + row.frozen_amount
                       /\ users'[orders[o].creator_tg].frozen_total_coins
                              = users[orders[o].creator_tg].frozen_total_coins
                                - row.frozen_amount
                       /\ orders'[o].status = "COMPLETED"
                       /\ orders'[o].frozen_amount = 0
        /\ Len(orders') # Len(orders)
              => LET new == orders'[Len(orders')] IN
                 /\ Len(orders') = Len(orders) + 1
                 /\ new.frozen_amount = new.price_coins
                 /\ new.status = "PUBLISHED"
                 /\ users' = [users EXCEPT
                        ![new.creator_tg].balance_coins = @ - new.price_coins,
                        ![new.creator_tg].frozen_total_coins = @ + new.price_coins]
        /\ users' # users
              => \/ Len(orders') # Len(orders)
                 \/ \E o \in Placed :
                       /\ ledger'[o] # ledger[o]
                       /\ orders'[o].status \in {"PUBLISHED", "COMPLETED"}
                       /\ \/ \E t \in Threads :
                                /\ threads[t].order_id = o
                                /\ threads[t].pc = "write"
                                /\ threads'[t] = Idle
                          \/ tasks[o].pc = "write" /\ tasks'[o] = NoTask
        /\ \A o \in Placed :
              (orders'[o].status = "COMPLETED" /\ orders[o].status # "COMPLETED")
                 => /\ ledger'[o].transfers = ledger[o].transfers + 1
                    /\ ledger'[o].credited > ledger[o].credited
                    /\ users' # users
      ]_vars

\* C17 witness: a transfer has failed and was rolled back: the order is
\* still AWAITING_CLIENT_APPROVAL with its funds frozen, nothing has been
\* credited, and neither an approve nor the auto-release job is pending
C17_Witness ==
    \E o \in Placed :
        /\ orders[o].status = "AWAITING_CLIENT_APPROVAL"
        /\ orders[o].frozen_amount > 0
        /\ ledger[o].transfers = 0
        /\ ~Pending(JobId("auto_release", o))
        /\ tasks[o] = NoTask
        /\ \A t \in Threads : threads[t] = Idle

\* C18: timeout as default approval: an order that is AWAITING_CLIENT_APPROVAL,
\* whatever its price, is eventually COMPLETED with its escrow transferred,
\* when nobody approves or disputes and the auto-release job is scheduled
\* fairly.
C18_AutoReleaseCompletes ==
    \A o \in OrderIds :
        (Exists(o) /\ orders[o].status = "AWAITING_CLIENT_APPROVAL")
            ~> (Exists(o) /\ orders[o].status = "COMPLETED")

\* the same for the orders with a price above 0
C18_PaidOrderCompletes ==
    \A o \in OrderIds :
        ( /\ Exists(o)
          /\ orders[o].status = "AWAITING_CLIENT_APPROVAL"
          /\ orders[o].price_coins > 0 )
            ~> ( /\ Exists(o)
                 /\ orders[o].status = "COMPLETED"
                 /\ ledger[o].credited = orders[o].price_coins )

\* C19: the confirmation-timeout job is informational: the step in which it
\* fires, whatever the state of the order, leaves every order and every
\* user's balance and frozen total as they were.
C19_TimeoutWritesNothing ==
    [][ \A o \in OrderIds :
            ( /\ Pending(JobId("confirm_timeout", o))
              /\ ~BagIn(JobId("confirm_timeout", o), jobs') )
                => /\ orders' = orders
                   /\ users' = users
                   /\ disputes' = disputes
      ]_vars

\* C19 witness: the job has fired on an order that nobody confirmed: the
\* order is still AWAITING_CUSTOMER_CONFIRM with its executor and its funds
C19_Witness ==
    \E o \in Placed :
        /\ orders[o].status = "AWAITING_CUSTOMER_CONFIRM"
        /\ orders[o].accepted_by # NULL
        /\ orders[o].frozen_amount > 0
        /\ ~Pending(JobId("confirm_timeout", o))
        /\ ledger[o].escalations > 0
        /\ \A t \in Threads : threads[t] = Idle

\* C20: a confirmation-timeout job sends its escalation only when the order
\* is still AWAITING_CUSTOMER_CONFIRM with the accepted_by of the acceptance
\* that scheduled the job.
C20_TimeoutForItsAcceptance ==
    [][ \A o \in OrderIds :
            ( /\ Pending(JobId("confirm_timeout", o))
              /\ ~BagIn(JobId("confirm_timeout", o), jobs')
              /\ TimeoutSends(o) )
                => orders[o].accepted_by = ledger[o].timeout_for
      ]_vars

\* C21: the job store holds at most one pending job per (order id, job kind):
\* an accept after a cancel replaces the confirm_timeout job the earlier
\* accept scheduled; and no acceptance is escalated more than once.
C21_OneEscalationPerAcceptance ==
    /\ \A id \in BagToSet(jobs) : CopiesIn(id, jobs) = 1
    /\ \A o \in Placed : ledger[o].escalations <= 1

\* the part of C21 that is about the job store alone
C21_OneJobPerKey == \A id \in BagToSet(jobs) : CopiesIn(id, jobs) = 1

\* C22: a handler that has committed AWAITING_CUSTOMER_CONFIRM leaves a
\* confirm_timeout job pending when it returns, and one that has committed
\* AWAITING_CLIENT_APPROVAL leaves an auto_release job pending, whatever
\* happened to the messages and the callback answer it sent in between.
C22_CommitLeavesJob ==
    [][ \A t \in Threads :
            /\ ( Running(t, "accept", "post") /\ threads'[t].op = "idle" )
                  => BagIn(JobId("confirm_timeout", threads[t].order_id), jobs')
            /\ ( Running(t, "complete", "post") /\ threads'[t].op = "idle" )
                  => BagIn(JobId("auto_release", threads[t].order_id), jobs')
      ]_vars

\* the executorComplete half of C22
C22_CompleteLeavesJob ==
    [][ \A t \in Threads :
            ( Running(t, "complete", "post") /\ threads'[t].op = "idle" )
                => BagIn(JobId("auto_release", threads[t].order_id), jobs')
      ]_vars

\* C23: an order's radius never decreases and never exceeds MAX_RADIUS_KM;
\* a tick that reaches the order raises the radius by exactly
\* EXPANSION_STEP_KM when radius + step <= max, and leaves it as it is
\* otherwise; nothing else changes it.
C23_RadiusGrowsByStepToMax ==
    /\ [][ \A o \in Placed :
             /\ orders'[o].radius_km >= orders[o].radius_km
             /\ orders'[o].radius_km # orders[o].radius_km => TickUpdates(o)
             /\ TickUpdates(o) =>
                    /\ orders'[o].radius_km
                           = orders[o].radius_km + EXPANSION_STEP_KM
                    /\ orders'[o].radius_km <= MAX_RADIUS_KM
             /\ TickSkips(o) =>
                    /\ orders[o].radius_km + EXPANSION_STEP_KM > MAX_RADIUS_KM
                    /\ orders'[o].radius_km = orders[o].radius_km
       ]_vars
    /\ [](\A o \in Placed : orders[o].radius_km <= MAX_RADIUS_KM)

\* C23 witness: ticks have expanded a PUBLISHED order as far as the maximum
\* lets them and have offered it to every executor on the way
C23_Witness ==
    \E o \in Placed :
        /\ orders[o].radius_km > INITIAL_RADIUS_KM
        /\ orders[o].radius_km + EXPANSION_STEP_KM > MAX_RADIUS_KM
        /\ orders[o].status = "PUBLISHED"
        /\ expansion = NoTick
        /\ \A e \in Executors : notifications[o][e] = 1

\* C24: a tick changes the radius of an order, and offers it to new
\* candidates, only while the order is PUBLISHED, also when an accept or an
\* openDispute of the order runs while the tick does.
C24_ExpansionOnlyWhilePublished ==
    [][ \A o \in Placed :
            ( TickUpdates(o) \/ TickOffers(o) )
                => orders[o].status = "PUBLISHED"
      ]_vars

\* C25: the notifications table holds no (order, executor) pair twice.
C25_NoDuplicateNotification ==
    \A o \in OrderIds, e \in Executors : notifications[o][e] <= 1

\* C26: the new-order offer of an order reaches an executor at most once,
\* counting the creation-time notifier and every expansion tick.
C26_OfferedAtMostOnce ==
    \A o \in OrderIds, e \in Executors : offers[o][e] <= 1

\* C27: executorComplete goes through only for the caller who is the
\* order's accepted_by, on an order it has read as IN_PROGRESS; no call by
\* another user moves the order to AWAITING_CLIENT_APPROVAL or schedules an
\* auto_release job: such a call ends with the order and the job store as
\* they were.
C27_OnlyExecutorCompletes ==
    [][ /\ \A t \in Threads :
             /\ ( threads'[t].op = "complete" /\ threads'[t].pc = "write"
                  /\ threads[t].pc # "write" )
                    => /\ Exists(threads'[t].order_id)
                       /\ orders[threads'[t].order_id].status = "IN_PROGRESS"
                       /\ orders[threads'[t].order_id].accepted_by
                              = threads'[t].user
             /\ ( threads[t].op = "complete" /\ threads'[t] = Idle
                  /\ threads[t].pc = "begin" )
                    => orders' = orders /\ jobs' = jobs
        /\ \A o \in Placed :
             /\ ( orders'[o].status = "AWAITING_CLIENT_APPROVAL"
                  /\ orders[o].status # "AWAITING_CLIENT_APPROVAL" )
                    => \E t \in Threads :
                          /\ Running(t, "complete", "write")
                          /\ threads[t].order_id = o
                          /\ threads[t].user = orders[o].accepted_by
             /\ CopiesIn(JobId("auto_release", o), jobs')
                    > CopiesIn(JobId("auto_release", o), jobs)
                    => \E t \in Threads :
                          /\ Running(t, "complete", "post")
                          /\ threads[t].order_id = o
                          /\ threads[t].user = orders[o].accepted_by
      ]_vars

\* C27 witness: the executor's complete has gone through while another
\* user's complete of the same order is waiting for the Lock
C27_Witness ==
    \E o \in Placed, t, s \in Threads :
        /\ Running(t, "complete", "post")
        /\ threads[t].order_id = o
        /\ threads[t].user = orders[o].accepted_by
        /\ orders[o].status = "AWAITING_CLIENT_APPROVAL"
        /\ Running(s, "complete", "begin")
        /\ threads[s].order_id = o
        /\ threads[s].user # orders[o].accepted_by

\* C28: accept, customerConfirm and executorComplete move no funds: no step
\* of one of these handlers changes a user's balance or frozen total or an
\* order's frozen_amount.
C28_NoFundsMoved ==
    [][ \A t \in Threads :
            ( /\ threads'[t] # threads[t]
              /\ \/ threads[t].op \in {"accept", "confirm", "complete"}
                 \/ threads'[t].op \in {"accept", "confirm", "complete"} )
                => /\ users' = users
                   /\ \A o \in Placed :
                        orders'[o].frozen_amount = orders[o].frozen_amount
      ]_vars

\* C28 witness: an order with a price has been accepted, confirmed and
\* completed, and its price is still frozen at the creator
C28_Witness ==
    \E o \in Placed :
        /\ orders[o].status = "AWAITING_CLIENT_APPROVAL"
        /\ orders[o].price_coins > 0
        /\ orders[o].frozen_amount = orders[o].price_coins
        /\ users[orders[o].creator_tg].frozen_total_coins = orders[o].price_coins
        /\ users[orders[o].creator_tg].balance_coins
               = InitBalance(orders[o].creator_tg) - orders[o].price_coins
        /\ users[orders[o].accepted_by].balance_coins
               = InitBalance(orders[o].accepted_by)
        /\ JobId("auto_release", o) \in BagToSet(jobs)

\* C29: the ratings table holds at most one row per (order, rater), however
\* often the rater sends stars or a comment; a submission that has found
\* the rater's row updates that row with what it supplies.
C29_OneRatingRowPerRater ==
    /\ [](\A o \in OrderIds, u \in Users : Len(ratings[o][u]) <= 1)
    /\ [][ \A t \in Threads :
             ( /\ threads[t].op \in {"rate", "comment"}
               /\ threads[t].pc = "write"
               /\ threads'[t] = Idle
               /\ rating_calls[t].found )
                 => LET rows == ratings'[threads[t].order_id][threads[t].user]
                    IN /\ Len(rows) = 1
                       /\ threads[t].op = "rate"
                            => rows[1].stars = rating_calls[t].stars
                       /\ threads[t].op = "comment"
                            => rows[1].comment = rating_calls[t].comment
       ]_vars

\* C29 witness: a rater's single row carries stars and a comment, and a
\* further submission of that rater that has found the row is on its way
C29_Witness ==
    \E o \in Placed, u \in Users, t \in Threads :
        /\ Len(ratings[o][u]) = 1
        /\ ratings[o][u][1].stars # NULL
        /\ ratings[o][u][1].comment # NULL
        /\ threads[t].op \in {"rate", "comment"}
        /\ threads[t].order_id = o
        /\ threads[t].user = u
        /\ rating_calls[t].found

\* C30: a submission changes only what it supplies: sending stars leaves
\* the stored comment of the rater's row as it was, and sending a comment
\* leaves the stored stars as they were.
C30_ResubmissionKeepsOtherField ==
    [][ \A t \in Threads :
            LET o == threads[t].order_id
                u == threads[t].user
            IN
            ( /\ threads[t].pc = "write"
              /\ threads[t].op \in {"rate", "comment"}
              /\ threads'[t] = Idle
              /\ ratings[o][u] # << >> )
                => /\ Len(ratings'[o][u]) = Len(ratings[o][u])
                   /\ threads[t].op = "rate"
                        => ratings'[o][u][1].comment = ratings[o][u][1].comment
                   /\ threads[t].op = "comment"
                        => ratings'[o][u][1].stars = ratings[o][u][1].stars
      ]_vars

\* C30 witness: a rater sent a comment and then stars, or stars and then a
\* comment, and the row holds both
C30_Witness ==
    \E o \in Placed, u \in Users :
        /\ Len(ratings[o][u]) = 1
        /\ ratings[o][u][1].stars = NumStars
        /\ ratings[o][u][1].comment = NumComments
        /\ \A t \in Threads : threads[t] = Idle

\* thread t commits the write of the confirm, cancel or approve it is running
CreatorOpCommits(t) ==
    /\ threads[t].op \in {"confirm", "cancel", "approve"}
    /\ threads[t].pc = "write"
    /\ threads'[t] # threads[t]
    /\ (orders' # orders \/ users' # users)

\* C34: only the creator of an order confirms, cancels or approves it: a
\* confirm, cancel or approve that changes the order or the users' coins is
\* run by the order's creator_tg; a call by any other user changes neither.
C34_OnlyCreatorActs ==
    [][ \A t \in Threads :
            CreatorOpCommits(t)
                => threads[t].user = orders[threads[t].order_id].creator_tg
      ]_vars

\* C36: the assigned executor is never the creator: accepted_by of an order
\* is not its creator_tg, and no transfer credits the escrow to the balance
\* of the order's own creator.
C36_ExecutorIsNotCreator ==
    /\ \A o \in Placed : orders[o].accepted_by # orders[o].creator_tg
    /\ \A t \in Threads :
           (threads[t].op = "approve" /\ threads[t].pc = "write")
               => threads[t].row.accepted_by
                      # orders[threads[t].order_id].creator_tg

RECURSIVE TotalCoins(_)
\* balance_coins + frozen_total_coins summed over the users 1..n
TotalCoins(n) == IF n = 0 THEN 0 ELSE TotalCoins(n - 1) + NetWorth(n)

RECURSIVE TotalGranted(_)
\* the coins granted to the users 1..n before any order was placed
TotalGranted(n) == IF n = 0 THEN 0 ELSE TotalGranted(n - 1) + InitBalance(n)

Assigned ==
    {"AWAITING_CUSTOMER_CONFIRM", "IN_PROGRESS", "AWAITING_CLIENT_APPROVAL",
     "COMPLETED"}

\* C38: an order whose status is AWAITING_CUSTOMER_CONFIRM, IN_PROGRESS,
\* AWAITING_CLIENT_APPROVAL or COMPLETED has an accepted_by; a PUBLISHED
\* order has none.
C38_ExecutorSetIffAssigned ==
    \A o \in Placed :
        /\ orders[o].status \in Assigned => orders[o].accepted_by # NULL
        /\ orders[o].status = "PUBLISHED" => orders[o].accepted_by = NULL

\* C38 witness: an order that was accepted, cancelled back to PUBLISHED and
\* accepted again has reached COMPLETED with its executor still recorded
C38_Witness ==
    \E o \in Placed :
        /\ orders[o].status = "COMPLETED"
        /\ orders[o].accepted_by \in Users
        /\ ledger[o].cancels > 0

\* ------------------------------------------------ the handlers and the Lock
\* the UPDATE of callback_accept raises before the commit: the except clause
\* logs it, the finally clause closes the connection; lk.release()
AcceptFail(t) ==
    /\ Running(t, "accept", "write")
    /\ Release(threads[t].order_id)
    /\ Finish(t)
    /\ UNCHANGED <<users, orders, disputes, jobs, tasks, ledger, outreach, reviews>>

\* the UPDATE of callback_customer_confirm raises: the exception leaves the
\* with block, which releases the Lock
ConfirmFail(t) ==
    /\ Running(t, "confirm", "write")
    /\ Release(threads[t].order_id)
    /\ Finish(t)
    /\ UNCHANGED <<users, orders, disputes, jobs, tasks, ledger, outreach, reviews>>

\* the UPDATE of callback_complete raises: the exception leaves the with
\* block, which releases the Lock
CompleteFail(t) ==
    /\ Running(t, "complete", "write")
    /\ Release(threads[t].order_id)
    /\ Finish(t)
    /\ UNCHANGED <<users, orders, disputes, jobs, tasks, ledger, outreach, reviews>>

\* the steps a worker thread takes between acquiring a Lock and releasing it
Holding(t) ==
    \/ AcceptWrite(t) \/ AcceptFail(t) \/ AcceptPost(t) \/ AcceptAnswerFails(t)
    \/ ConfirmWrite(t) \/ ConfirmFail(t)
    \/ CancelWrite(t) \/ CancelFail(t)
    \/ CompleteWrite(t) \/ CompleteFail(t) \/ CompletePost(t)
    \/ ApproveWrite(t) \/ ApproveFail(t)

\* The handlers that take an order's Lock, with their exception paths.  A
\* worker thread that holds a Lock keeps running: every statement it
\* executes under the Lock returns or raises (sqlite3 timeout=30).
NextLock ==
    \/ \E c \in Users, p \in Prices : CreateOrder(c, p)
    \/ \E t \in Threads, o \in OrderIds, u \in Users : AcceptWait(t, o, u)
    \/ \E t \in Threads : AcceptBusy(t)
    \/ \E t \in Threads, o \in OrderIds, u \in Users : AcceptRead(t, o, u)
    \/ \E t \in Threads : AcceptWrite(t)
    \/ \E t \in Threads : AcceptFail(t)
    \/ \E t \in Threads : AcceptPost(t)
    \/ \E t \in Threads : AcceptAnswerFails(t)
    \/ \E t \in Threads, o \in OrderIds, u \in Users : ConfirmWait(t, o, u)
    \/ \E t \in Threads, o \in OrderIds, u \in Users : ConfirmRead(t, o, u)
    \/ \E t \in Threads : ConfirmWrite(t)
    \/ \E t \in Threads : ConfirmFail(t)
    \/ \E t \in Threads, o \in OrderIds, u \in Users : CancelWait(t, o, u)
    \/ \E t \in Threads, o \in OrderIds, u \in Users : CancelRead(t, o, u)
    \/ \E t \in Threads : CancelWrite(t)
    \/ \E t \in Threads : CancelFail(t)
    \/ \E t \in Threads, o \in OrderIds, u \in Users : CompleteWait(t, o, u)
    \/ \E t \in Threads, o \in OrderIds, u \in Users : CompleteRead(t, o, u)
    \/ \E t \in Threads : CompleteWrite(t)
    \/ \E t \in Threads : CompleteFail(t)
    \/ \E t \in Threads : CompletePost(t)
    \/ \E t \in Threads, o \in OrderIds, u \in Users : ApproveWait(t, o, u)
    \/ \E t \in Threads, o \in OrderIds, u \in Users : ApproveRead(t, o, u)
    \/ \E t \in Threads : ApproveWrite(t)
    \/ \E t \in Threads : ApproveFail(t)

SpecLock ==
    /\ Init
    /\ [][NextLock]_vars
    /\ \A t \in Threads : WF_vars(Holding(t))

\* the Lock of order o is held by a thread that is inside a handler of o,
\* past its status check
HeldByRunningHandler(o) ==
    order_locks[o] # NULL =>
        LET t == order_locks[o] IN
        /\ threads[t].op \in Guarded
        /\ threads[t].order_id = o
        /\ threads[t].pc \in {"write", "post"}

\* thread t returns from a handler of order o in this step
Returns(t, o) ==
    /\ threads[t].order_id = o
    /\ threads[t].op # "idle"
    /\ threads'[t].op = "idle"

\* C39: every handler that acquires an order's Lock releases it on every
\* exit path: a Lock is held only by a thread that is still inside the
\* handler, no Lock is held by a thread that has returned, a held Lock is
\* released in the end, so that a handler waiting for it finds it free; an
\* accept that does not get the Lock within its timeout changes nothing.
C39_LockAlwaysReleased ==
    /\ [](\A o \in OrderIds : HeldByRunningHandler(o))
    /\ [][ \A t \in Threads, o \in OrderIds :
               Returns(t, o) =>
                   /\ order_locks'[o] # t
                   /\ (Running(t, "accept", "begin") /\ ~LockFree(o))
                          => UNCHANGED <<users, orders, disputes, order_locks,
                                         jobs, tasks, ledger>>
         ]_vars
    /\ \A o \in OrderIds : (order_locks[o] # NULL) ~> (order_locks[o] = NULL)
    /\ \A t \in Threads, o \in OrderIds :
           (threads[t].pc = "begin" /\ threads[t].order_id = o)
               ~> (order_locks[o] = NULL)

\* C39 witness: an accept is waiting for the Lock of an order that another
\* accept has taken to AWAITING_CUSTOMER_CONFIRM; that accept has returned
\* through its except clause (no confirm_timeout job is pending) and the Lock
\* is free again
C39_Witness ==
    \E t \in Threads, o \in Placed :
        /\ Running(t, "accept", "begin")
        /\ threads[t].order_id = o
        /\ order_locks[o] = NULL
        /\ orders[o].status = "AWAITING_CUSTOMER_CONFIRM"
        /\ ~Pending(JobId("confirm_timeout", o))
        /\ \A s \in Threads \ {t} : threads[s].op = "idle"

\* C32: every stars value stored in the ratings table is an integer in
\* 1..5, whatever number the rate callback carried.
C32_StarsInRange ==
    \A o \in OrderIds, u \in Users :
        \A i \in 1..Len(ratings[o][u]) :
            ratings[o][u][i].stars # NULL
                => ratings[o][u][i].stars \in 1..MAX_STARS

\* thread t is handed a rate or comment submission and lets it in
Admitted(t) == threads[t].op = "idle" /\ threads'[t].op \in {"rate", "comment"}

\* thread t commits the submission it has let in
Stores(t) ==
    /\ threads[t].op \in {"rate", "comment"}
    /\ threads[t].pc = "write"
    /\ threads'[t].op = "idle"

\* the other party of order o for its party u
CounterParty(o, u) ==
    IF u = orders[o].creator_tg THEN orders[o].accepted_by
    ELSE orders[o].creator_tg

\* a submission is let in only from the creator or the assigned executor of
\* the order, with the other party as its target
OnlyPartiesAdmitted ==
    \A t \in Threads :
        Admitted(t) =>
            LET o == threads'[t].order_id
                u == threads'[t].user
            IN
            /\ Exists(o)
            /\ u \in {orders[o].creator_tg, orders[o].accepted_by}
            /\ rating_calls'[t].to_tg = CounterParty(o, u)
            /\ rating_calls'[t].to_tg # NULL

\* the ratings table changes only in the commit of a submission that was
\* let in, and only in the row of its rater
OnlyAdmittedStore ==
    \A o \in OrderIds, u \in Users :
        ratings'[o][u] # ratings[o][u] =>
            \E t \in Threads :
                /\ Stores(t)
                /\ threads[t].order_id = o
                /\ threads[t].user = u

\* after the commit of a submission the rater's row targets the party the
\* submission was let in for
StoredTargetIsCounterParty ==
    \A t \in Threads :
        Stores(t) =>
            LET rows == ratings'[threads[t].order_id][threads[t].user] IN
            \A i \in 1..Len(rows) : rows[i].to_tg = rating_calls[t].to_tg

\* C31 (rejection): a submission by a user who is neither the creator nor
\* the assigned executor of the order is turned away and stores no row.
C31_StrangerIsRejected == [][OnlyPartiesAdmitted /\ OnlyAdmittedStore]_vars

\* C31: a rating submitted by a user who is neither creator nor assigned
\* executor is rejected and stores no row; for a party, the row stored for
\* the submission targets the other party of the order: the creator rates
\* accepted_by, the executor rates the creator.
C31_PartyRatesOtherParty ==
    [][ /\ OnlyPartiesAdmitted
        /\ OnlyAdmittedStore
        /\ StoredTargetIsCounterParty ]_vars

\* C37 (no self-rating): no row of the ratings table has to_tg = from_tg.
C37_NoSelfRating ==
    \A o \in OrderIds, u \in Users :
        \A i \in 1..Len(ratings[o][u]) : ratings[o][u][i].to_tg # u

\* C37: no user rates themselves: every row of the ratings table has
\* from_tg # to_tg, and its to_tg is the counterparty the rater had when
\* the row was last submitted.
C37_TargetIsCounterParty ==
    /\ [](\A o \in OrderIds, u \in Users :
             \A i \in 1..Len(ratings[o][u]) : ratings[o][u][i].to_tg # u)
    /\ [][StoredTargetIsCounterParty]_vars

\* users.rating_sum DEFAULT 5 / users.rating_count DEFAULT 1: the rating 5.0
\* a user starts with
SeededDefault == [num |-> 5, den |-> 1]

\* the quotients a and b are the same number
SameNumber(a, b) ==
    /\ a.den # 0
    /\ b.den # 0
    /\ a.num * b.den = b.num * a.den

RECURSIVE Deviation(_, _)
\* the sum over the rows K of stars - m, times the denominator of m
Deviation(K, m) ==
    IF K = {} THEN 0
    ELSE LET k == CHOOSE x \in K : TRUE
         IN  (ratings[k[1]][k[2]][k[3]].stars * m.den - m.num)
             + Deviation(K \ {k}, m)

\* the stars of the rows K deviate from the number m by 0 in sum: m is
\* their mean
IsMeanOf(m, K) == m.den # 0 /\ Deviation(K, m) = 0

\* C33 (mean): for a user who has received stars, the average rating is the
\* mean of all non-null stars of the rows that target the user.
C33_AverageIsMeanOfStars ==
    \A u \in Users :
        RatedRows(u) # {} => IsMeanOf(compute_avg_rating(u), RatedRows(u))

\* C33: the average rating of a user is the mean of all non-null stars of
\* the rows that target the user, and the seeded default 5.0 when there is
\* no such row.
C33_AverageOrSeededDefault ==
    \A u \in Users :
        IF RatedRows(u) # {}
          THEN IsMeanOf(compute_avg_rating(u), RatedRows(u))
          ELSE SameNumber(compute_avg_rating(u), SeededDefault)

\* two rows with different stars target the same user
C33_TwoRowsOneTarget ==
    \E u \in Users :
        /\ Cardinality(RatedRows(u)) > 1
        /\ \E j \in RatedRows(u), k \in RatedRows(u) :
               ratings[j[1]][j[2]][j[3]].stars # ratings[k[1]][k[2]][k[3]].stars


====
